---- MODULE Spec2Model ----
(***************************************************************************)
(* Agriculture chatbot: the query routing and context-augmentation         *)
(* pipeline of chatbot/response_generator.py, the knowledge store of       *)
(* chatbot/knowledge_base.py and the text normaliser of chatbot/utils.py.  *)
(*                                                                         *)
(* A Python str is a sequence of characters; a character is a one-letter   *)
(* string, except "NL" (newline), "TAB", "BT" (backtick) and "BULLET".     *)
(* Other Python values are tagged records, so that isinstance() is a test  *)
(* of the tag: None, PyStr, PyNum, PyList, PyDict (an ordered sequence of  *)
(* key/value items, as dict iteration is insertion-ordered).               *)
(***************************************************************************)
EXTENDS Integers, Sequences, FiniteSets, TLC

VARIABLES
    crops_file,   \* data/crops_data.json as found at construction
    knowledge,    \* AgricultureKnowledgeBase.knowledge
    chat,         \* AgricultureBot.chat: None, or the session with its history
    environ,      \* os.environ: the settings the bot reads
    req,          \* per worker thread: the get_response call it is serving
    served,       \* number of requests accepted so far
    fn_call,      \* a direct call of one function: its name and arguments
    fn_ret        \* the value that call returned

vars == <<crops_file, knowledge, chat, environ, req, served, fn_call, fn_ret>>

----------------------------------------------------------------------------
(* Python values *)

None == [t |-> "none"]
PyStr(s) == [t |-> "str", v |-> s]
PyNum(n) == [t |-> "num", v |-> n]
PyList(xs) == [t |-> "list", v |-> xs]
PyDict(items) == [t |-> "dict", v |-> items]
KV(k, x) == [key |-> k, value |-> x]

\* key in d, d[key] and d.get(key) of a dict
HasKey(d, k) == \E i \in 1..Len(d.v) : d.v[i].key = k
GetItem(d, k) == d.v[CHOOSE i \in 1..Len(d.v) : d.v[i].key = k].value
SetItem(d, k, x) == PyDict([i \in 1..Len(d.v) |-> IF d.v[i].key = k THEN KV(k, x) ELSE d.v[i]])

----------------------------------------------------------------------------
(* str methods *)

UpperCase == {"A","B","C","D","E","F","G","H","I","J","K","L","M",
              "N","O","P","Q","R","S","T","U","V","W","X","Y","Z"}
lower_map == [c \in UpperCase |->
    CASE c = "A" -> "a" [] c = "B" -> "b" [] c = "C" -> "c" [] c = "D" -> "d"
      [] c = "E" -> "e" [] c = "F" -> "f" [] c = "G" -> "g" [] c = "H" -> "h"
      [] c = "I" -> "i" [] c = "J" -> "j" [] c = "K" -> "k" [] c = "L" -> "l"
      [] c = "M" -> "m" [] c = "N" -> "n" [] c = "O" -> "o" [] c = "P" -> "p"
      [] c = "Q" -> "q" [] c = "R" -> "r" [] c = "S" -> "s" [] c = "T" -> "t"
      [] c = "U" -> "u" [] c = "V" -> "v" [] c = "W" -> "w" [] c = "X" -> "x"
      [] c = "Y" -> "y" [] c = "Z" -> "z"]

\* str.lower()
lower(s) == [i \in 1..Len(s) |-> IF s[i] \in UpperCase THEN lower_map[s[i]] ELSE s[i]]

Whitespace == {" ", "NL", "TAB"}

\* w in s (substring test); the empty string is in every string
IsSubstring(w, s) ==
    \E i \in 1..(Len(s) - Len(w) + 1) : \A j \in 1..Len(w) : s[i + j - 1] = w[j]

\* s.startswith(p)
startswith(s, p) == Len(p) <= Len(s) /\ \A j \in 1..Len(p) : s[j] = p[j]

\* s.split(): the maximal runs of non-whitespace characters, in order
RECURSIVE split(_)
split(s) ==
    IF s = <<>> THEN <<>>
    ELSE IF s[1] \in Whitespace THEN split(Tail(s))
    ELSE LET stops == {i \in 1..Len(s) : s[i] \in Whitespace}
             n == IF stops = {} THEN Len(s) + 1
                  ELSE CHOOSE i \in stops : \A k \in stops : i <= k
         IN  <<SubSeq(s, 1, n - 1)>> \o split(SubSeq(s, n, Len(s)))

\* s.strip()
strip(s) ==
    LET keep == {i \in 1..Len(s) : s[i] \notin Whitespace}
    IN  IF keep = {} THEN <<>>
        ELSE SubSeq(s, CHOOSE i \in keep : \A k \in keep : i <= k,
                       CHOOSE i \in keep : \A k \in keep : i >= k)

\* s.replace(old, ""): every non-overlapping occurrence, scanning left to right
RECURSIVE replace_with_empty(_, _)
replace_with_empty(s, old) ==
    IF Len(s) < Len(old) THEN s
    ELSE IF startswith(s, old) THEN replace_with_empty(SubSeq(s, Len(old) + 1, Len(s)), old)
    ELSE <<s[1]>> \o replace_with_empty(Tail(s), old)

----------------------------------------------------------------------------
(* chatbot/utils.py *)

\* re.sub(r'\s+', ' ', text): each maximal run of whitespace becomes one space
RECURSIVE re_sub_spaces(_)
re_sub_spaces(s) ==
    IF s = <<>> THEN <<>>
    ELSE IF s[1] \in Whitespace
         THEN IF Len(s) > 1 /\ s[2] \in Whitespace THEN re_sub_spaces(Tail(s))
              ELSE <<" ">> \o re_sub_spaces(Tail(s))
    ELSE <<s[1]>> \o re_sub_spaces(Tail(s))

clean_text(text) ==
    IF text = <<>> THEN <<>>
    ELSE strip(re_sub_spaces(lower(text)))

----------------------------------------------------------------------------
(* chatbot/knowledge_base.py *)

_get_default_crops_data ==
    PyDict(<<
      KV(<<"r","i","c","e">>,
         PyDict(<<
            KV("name", PyStr(<<"R","i","c","e">>)),
            KV("description", PyStr(<<"R","i","c","e"," ","i","s"," ","a"," ","s","t","a",
                "p","l","e"," ","c","e","r","e","a","l"," ","g","r","a","i","n"," ","a","n",
                "d"," ","o","n","e"," ","o","f"," ","t","h","e"," ","m","o","s","t"," ","i",
                "m","p","o","r","t","a","n","t"," ","c","r","o","p","s"," ","w","o","r","l",
                "d","w","i","d","e",".">>)),
            KV("growing_tips", PyStr(<<"BULLET"," ","P","l","a","n","t"," ","i","n"," ","f",
                "l","o","o","d","e","d"," ","f","i","e","l","d","s","NL","BULLET"," ","R",
                "e","q","u","i","r","e","s"," ","w","a","r","m"," ","c","l","i","m","a","t",
                "e","NL","BULLET"," ","1","2","0","-","1","5","0"," ","d","a","y","s"," ",
                "t","o"," ","m","a","t","u","r","i","t","y","NL","BULLET"," ","p","H"," ",
                "5",".","5","-","6",".","5"," ","p","r","e","f","e","r","r","e","d">>)),
            KV("season", PyStr(<<"M","o","n","s","o","o","n"," ","s","e","a","s","o","n",
                " ","(","J","u","n","e","-","O","c","t","o","b","e","r",")">>)),
            KV("pests", PyList(<<PyStr(<<"B","r","o","w","n"," ","p","l","a","n","t","h",
                "o","p","p","e","r">>), PyStr(<<"R","i","c","e"," ","s","t","e","m"," ","b",
                "o","r","e","r">>), PyStr(<<"B","l","a","s","t"," ","d","i","s","e","a","s",
                "e">>)>>)) >>)),
      KV(<<"w","h","e","a","t">>,
         PyDict(<<
            KV("name", PyStr(<<"W","h","e","a","t">>)),
            KV("description", PyStr(<<"W","h","e","a","t"," ","i","s"," ","a"," ","c","e",
                "r","e","a","l"," ","g","r","a","i","n"," ","t","h","a","t"," ","i","s"," ",
                "a"," ","w","o","r","l","d","w","i","d","e"," ","s","t","a","p","l","e"," ",
                "f","o","o","d",".">>)),
            KV("growing_tips", PyStr(<<"BULLET"," ","C","o","o","l",","," ","d","r","y"," ",
                "c","l","i","m","a","t","e"," ","p","r","e","f","e","r","r","e","d","NL",
                "BULLET"," ","W","e","l","l","-","d","r","a","i","n","e","d"," ","s","o",
                "i","l","NL","BULLET"," ","1","0","0","-","1","3","0"," ","d","a","y","s",
                " ","t","o"," ","h","a","r","v","e","s","t","NL","BULLET"," ","p","H"," ",
                "6",".","0","-","7",".","0"," ","o","p","t","i","m","a","l">>)),
            KV("season", PyStr(<<"W","i","n","t","e","r"," ","s","e","a","s","o","n"," ",
                "(","N","o","v","e","m","b","e","r","-","A","p","r","i","l",")">>)),
            KV("pests", PyList(<<PyStr(<<"A","p","h","i","d","s">>), PyStr(<<"R","u","s",
                "t"," ","d","i","s","e","a","s","e","s">>), PyStr(<<"H","e","s","s","i","a",
                "n"," ","f","l","y">>)>>)) >>)),
      KV(<<"t","o","m","a","t","o">>,
         PyDict(<<
            KV("name", PyStr(<<"T","o","m","a","t","o">>)),
            KV("description", PyStr(<<"T","o","m","a","t","o","e","s"," ","a","r","e"," ",
                "v","e","r","s","a","t","i","l","e"," ","f","r","u","i","t","s"," ","u","s",
                "e","d"," ","i","n"," ","c","o","o","k","i","n","g"," ","w","o","r","l","d",
                "w","i","d","e",".">>)),
            KV("growing_tips", PyStr(<<"BULLET"," ","W","a","r","m"," ","w","e","a","t","h",
                "e","r"," ","c","r","o","p","NL","BULLET"," ","R","i","c","h",","," ","w",
                "e","l","l","-","d","r","a","i","n","e","d"," ","s","o","i","l","NL",
                "BULLET"," ","R","e","g","u","l","a","r"," ","w","a","t","e","r","i","n",
                "g","NL","BULLET"," ","S","u","p","p","o","r","t"," ","w","i","t","h"," ",
                "s","t","a","k","e","s">>)),
            KV("season", PyStr(<<"S","u","m","m","e","r"," ","s","e","a","s","o","n"," ",
                "(","M","a","r","c","h","-","J","u","n","e",")">>)),
            KV("pests", PyList(<<PyStr(<<"T","o","m","a","t","o"," ","h","o","r","n","w",
                "o","r","m">>), PyStr(<<"A","p","h","i","d","s">>), PyStr(<<"B","l","i","g",
                "h","t"," ","d","i","s","e","a","s","e","s">>)>>)) >>)),
      KV(<<"p","o","t","a","t","o">>,
         PyDict(<<
            KV("name", PyStr(<<"P","o","t","a","t","o">>)),
            KV("description", PyStr(<<"P","o","t","a","t","o","e","s"," ","a","r","e"," ",
                "u","n","d","e","r","g","r","o","u","n","d"," ","t","u","b","e","r","s"," ",
                "t","h","a","t"," ","a","r","e"," ","a"," ","m","a","j","o","r"," ","f","o",
                "o","d"," ","c","r","o","p",".">>)),
            KV("growing_tips", PyStr(<<"BULLET"," ","C","o","o","l"," ","w","e","a","t","h",
                "e","r"," ","p","r","e","f","e","r","r","e","d","NL","BULLET"," ","L","o",
                "o","s","e",","," ","f","e","r","t","i","l","e"," ","s","o","i","l","NL",
                "BULLET"," ","H","i","l","l"," ","u","p"," ","p","l","a","n","t","s"," ",
                "r","e","g","u","l","a","r","l","y","NL","BULLET"," ","C","o","n","s","i",
                "s","t","e","n","t"," ","m","o","i","s","t","u","r","e">>)),
            KV("season", PyStr(<<"W","i","n","t","e","r"," ","s","e","a","s","o","n"," ",
                "(","O","c","t","o","b","e","r","-","F","e","b","r","u","a","r","y",")">>)),
            KV("pests", PyList(<<PyStr(<<"C","o","l","o","r","a","d","o"," ","p","o","t",
                "a","t","o"," ","b","e","e","t","l","e">>), PyStr(<<"L","a","t","e"," ","b",
                "l","i","g","h","t">>), PyStr(<<"A","p","h","i","d","s">>)>>)) >>)),
      KV(<<"c","o","r","n">>,
         PyDict(<<
            KV("name", PyStr(<<"C","o","r","n"," ","(","M","a","i","z","e",")">>)),
            KV("description", PyStr(<<"C","o","r","n"," ","i","s"," ","a"," ","c","e","r",
                "e","a","l"," ","g","r","a","i","n"," ","t","h","a","t"," ","s","e","r","v",
                "e","s"," ","a","s"," ","f","o","o","d"," ","f","o","r"," ","h","u","m","a",
                "n","s"," ","a","n","d"," ","l","i","v","e","s","t","o","c","k",".">>)),
            KV("growing_tips", PyStr(<<"BULLET"," ","W","a","r","m"," ","s","e","a","s","o",
                "n"," ","c","r","o","p","NL","BULLET"," ","F","u","l","l"," ","s","u","n",
                " ","e","x","p","o","s","u","r","e","NL","BULLET"," ","R","i","c","h",",",
                " ","w","e","l","l","-","d","r","a","i","n","e","d"," ","s","o","i","l",
                "NL","BULLET"," ","A","d","e","q","u","a","t","e"," ","s","p","a","c","i",
                "n","g"," ","f","o","r"," ","p","o","l","l","i","n","a","t","i","o","n">>)),
            KV("season", PyStr(<<"S","u","m","m","e","r"," ","s","e","a","s","o","n"," ",
                "(","A","p","r","i","l","-","A","u","g","u","s","t",")">>)),
            KV("pests", PyList(<<PyStr(<<"C","o","r","n"," ","b","o","r","e","r"
                >>), PyStr(<<"A","r","m","y","w","o","r","m">>), PyStr(<<"C","o","r","n",
                " ","s","m","u","t">>)>>)) >>)) >>)

_get_default_knowledge ==
    PyDict(<<
      KV("crops", _get_default_crops_data),
      KV("pests",
         PyDict(<<
            KV(<<"a","p","h","i","d","s">>,
               PyDict(<<
                  KV("name", PyStr(<<"A","p","h","i","d","s">>)),
                  KV("description", PyStr(<<"S","m","a","l","l",","," ","s","o","f","t","-",
                      "b","o","d","i","e","d"," ","i","n","s","e","c","t","s"," ","t","h",
                      "a","t"," ","f","e","e","d"," ","o","n"," ","p","l","a","n","t"," ",
                      "s","a","p",".">>)),
                  KV("treatment", PyStr(<<"U","s","e"," ","n","e","e","m"," ","o","i","l",
                      " ","s","p","r","a","y",","," ","i","n","t","r","o","d","u","c","e",
                      " ","l","a","d","y","b","u","g","s",","," ","o","r"," ","u","s","e",
                      " ","i","n","s","e","c","t","i","c","i","d","a","l"," ","s","o","a",
                      "p",".">>)),
                  KV("prevention", PyStr(<<"R","e","g","u","l","a","r"," ","i","n","s","p",
                      "e","c","t","i","o","n",","," ","a","v","o","i","d"," ","o","v","e",
                      "r","-","f","e","r","t","i","l","i","z","a","t","i","o","n">>)) >>)),
            KV(<<"c","a","t","e","r","p","i","l","l","a","r","s">>,
               PyDict(<<
                  KV("name", PyStr(<<"C","a","t","e","r","p","i","l","l","a","r","s">>)),
                  KV("description", PyStr(<<"L","a","r","v","a","e"," ","o","f"," ","m","o",
                      "t","h","s"," ","a","n","d"," ","b","u","t","t","e","r","f","l","i",
                      "e","s"," ","t","h","a","t"," ","e","a","t"," ","p","l","a","n","t",
                      " ","l","e","a","v","e","s",".">>)),
                  KV("treatment", PyStr(<<"H","a","n","d"," ","p","i","c","k","i","n","g",
                      ","," ","B","t"," ","s","p","r","a","y",","," ","o","r"," ","a","p",
                      "p","r","o","p","r","i","a","t","e"," ","i","n","s","e","c","t","i",
                      "c","i","d","e","s",".">>)),
                  KV("prevention", PyStr(<<"R","o","w"," ","c","o","v","e","r","s",","," ",
                      "c","o","m","p","a","n","i","o","n"," ","p","l","a","n","t","i","n",
                      "g">>)) >>)) >>)),
      KV("soil",
         PyDict(<<
            KV(<<"p","h","_","t","e","s","t","i","n","g">>,
               PyDict(<<
                  KV("description", PyStr(<<"S","o","i","l"," ","p","H"," ","a","f","f","e",
                      "c","t","s"," ","n","u","t","r","i","e","n","t"," ","a","v","a","i",
                      "l","a","b","i","l","i","t","y"," ","t","o"," ","p","l","a","n","t",
                      "s",".">>)),
                  KV("recommendations", PyStr(<<"T","e","s","t"," ","p","H"," ","a","n","n",
                      "u","a","l","l","y","."," ","M","o","s","t"," ","c","r","o","p","s",
                      " ","p","r","e","f","e","r"," ","p","H"," ","6",".","0","-","7",".",
                      "0","."," ","U","s","e"," ","l","i","m","e"," ","t","o"," ","r","a",
                      "i","s","e"," ","p","H",","," ","s","u","l","f","u","r"," ","t","o",
                      " ","l","o","w","e","r"," ","i","t",".">>)) >>)),
            KV(<<"c","o","m","p","o","s","t","i","n","g">>,
               PyDict(<<
                  KV("description", PyStr(<<"C","o","m","p","o","s","t","i","n","g"," ","c",
                      "r","e","a","t","e","s"," ","r","i","c","h"," ","o","r","g","a","n",
                      "i","c"," ","m","a","t","t","e","r"," ","f","o","r"," ","s","o","i",
                      "l"," ","i","m","p","r","o","v","e","m","e","n","t",".">>)),
                  KV("recommendations", PyStr(<<"M","i","x"," ","g","r","e","e","n"," ","a",
                      "n","d"," ","b","r","o","w","n"," ","m","a","t","e","r","i","a","l",
                      "s",","," ","m","a","i","n","t","a","i","n"," ","m","o","i","s","t",
                      "u","r","e",","," ","t","u","r","n"," ","r","e","g","u","l","a","r",
                      "l","y"," ","f","o","r"," ","a","e","r","a","t","i","o","n","."
                              >>)) >>)) >>)),
      KV("weather",
         PyDict(<<
            KV(<<"s","e","a","s","o","n","a","l","_","p","l","a","n","n","i","n","g">>,
               PyDict(<<
                  KV("description", PyStr(<<"P","l","a","n","n","i","n","g"," ","c","r","o",
                      "p","s"," ","a","c","c","o","r","d","i","n","g"," ","t","o"," ","s",
                      "e","a","s","o","n","a","l"," ","w","e","a","t","h","e","r"," ","p",
                      "a","t","t","e","r","n","s",".">>)),
                  KV("recommendations", PyStr(<<"P","l","a","n","t"," ","w","a","r","m","-",
                      "s","e","a","s","o","n"," ","c","r","o","p","s"," ","a","f","t","e",
                      "r"," ","l","a","s","t"," ","f","r","o","s","t",","," ","c","o","o",
                      "l","-","s","e","a","s","o","n"," ","c","r","o","p","s"," ","i","n",
                      " ","f","a","l","l","/","w","i","n","t","e","r",".">>)) >>)) >>)),
      KV("general",
         PyDict(<<
            KV(<<"o","r","g","a","n","i","c","_","f","a","r","m","i","n","g">>,
               PyDict(<<
                  KV("description", PyStr(<<"F","a","r","m","i","n","g"," ","w","i","t","h",
                      "o","u","t"," ","s","y","n","t","h","e","t","i","c"," ","c","h","e",
                      "m","i","c","a","l","s",","," ","f","o","c","u","s","i","n","g"," ",
                      "o","n"," ","n","a","t","u","r","a","l"," ","m","e","t","h","o","d",
                      "s",".">>)),
                  KV("recommendations", PyStr(<<"U","s","e"," ","c","o","m","p","o","s","t",
                      ","," ","c","r","o","p"," ","r","o","t","a","t","i","o","n",","," ",
                      "b","i","o","l","o","g","i","c","a","l"," ","p","e","s","t"," ","c",
                      "o","n","t","r","o","l",","," ","a","n","d"," ","c","o","v","e","r",
                      " ","c","r","o","p","s",".">>)) >>)) >>)) >>)

\* What the constructor finds at data/crops_data.json: no file, a file that
\* open() or json.load() fails on, or a file holding a JSON value.
FileAbsent == [kind |-> "absent"]
FileUnreadable == [kind |-> "unreadable"]
FileJson(content) == [kind |-> "json", content |-> content]

\* A crops file a user could supply: an upper-case key, a list-valued field, a
\* bare-string entry and a number entry.
CustomCrops ==
    PyDict(<<
      KV(<<"M","a","i","z","e">>,
         PyDict(<<
            KV("name", PyStr(<<"M","a","i","z","e">>)),
            KV("aliases", PyList(<<PyStr(<<"c","o","r","n">>), PyStr(<<"r","i","c","e">>)>>)),
            KV("season", PyStr(<<"K","h","a","r","i","f"," ","S","E","A","S","O","N">>)),
            KV("days", PyNum(90)) >>)),
      KV(<<"p","a","d","d","y">>, PyStr(<<"R","i","c","e"," ","p","a","d","d","y",","," ",
              "s","o","w","n"," ","i","n"," ","t","h","e"," ","w","e","t"," ","s","e","a",
              "s","o","n">>)),
      KV(<<"r","i","c","e"," ","s","t","o","c","k">>, PyNum(3)),
      KV(<<"b","a","s","m","a","t","i">>,
         PyDict(<<
            KV("name", PyStr(<<"B","a","s","m","a","t","i"," ","r","i","c","e">>)),
            KV("season", PyStr(<<"w","e","t"," ","s","e","a","s","o","n">>)) >>)) >>)

CropsFiles ==
    {FileAbsent, FileUnreadable, FileJson(CustomCrops), FileJson(PyList(<<>>))}

_load_knowledge(file) ==
    LET empty == PyDict(<<KV("crops", PyDict(<<>>)), KV("pests", PyDict(<<>>)),
                          KV("soil", PyDict(<<>>)), KV("weather", PyDict(<<>>)),
                          KV("general", PyDict(<<>>))>>)
    IN  CASE file.kind = "json" -> SetItem(empty, "crops", file.content)
          [] file.kind = "absent" -> SetItem(empty, "crops", _get_default_crops_data)
          [] OTHER -> _get_default_knowledge   \* the except branch

\* any(word in s for word in query.split())
any_word_in(words, s) == \E i \in 1..Len(words) : IsSubstring(words[i], s)

\* a variant of content_score that adds one point per matching query word
RECURSIVE content_score_per_word(_, _)
content_score_per_word(fields, words) ==
    IF fields = <<>> THEN 0
    ELSE (IF fields[1].value.t = "str"
          THEN Cardinality({i \in 1..Len(words) :
                              IsSubstring(words[i], lower(fields[1].value.v))})
          ELSE 0) + content_score_per_word(Tail(fields), words)

\* the loop over data.items(): one point per str field holding a query word
RECURSIVE content_score(_, _)
content_score(fields, words) ==
    IF fields = <<>> THEN 0
    ELSE (IF fields[1].value.t = "str" /\ any_word_in(words, lower(fields[1].value.v))
          THEN 1 ELSE 0) + content_score(Tail(fields), words)

_calculate_relevance(query, key, data) ==
    LET words == split(query)
    IN  (IF any_word_in(words, lower(key)) THEN 2 ELSE 0)
        + (IF data.t = "dict" THEN content_score(data.v, words)
           ELSE IF data.t = "str" /\ any_word_in(words, lower(data.v)) THEN 1
           ELSE 0)

\* a variant of scan_items that compares with >=, so the last maximum wins
RECURSIVE scan_items_last_wins(_, _, _)
scan_items_last_wins(items, query_lower, acc) ==
    IF items = <<>> THEN acc
    ELSE LET score == _calculate_relevance(query_lower, items[1].key, items[1].value)
         IN  scan_items_last_wins(Tail(items), query_lower,
                                  IF score >= acc.highest_score
                                  THEN [best |-> items[1].value, highest_score |-> score]
                                  ELSE acc)

\* one pass of "for key, value in topic_data.items()", carrying the best
\* match and the highest score found so far
RECURSIVE scan_items(_, _, _)
scan_items(items, query_lower, acc) ==
    IF items = <<>> THEN acc
    ELSE LET score == _calculate_relevance(query_lower, items[1].key, items[1].value)
         IN  scan_items(Tail(items), query_lower,
                        IF score > acc.highest_score
                        THEN [best |-> items[1].value, highest_score |-> score]
                        ELSE acc)

Raised(exc) == [t |-> "raise", exc |-> exc]

\* "for topic_name, topic_data in self.knowledge.items()": topic_data.items()
\* raises AttributeError when topic_data is not a dict
RECURSIVE scan_topics(_, _, _)
scan_topics(topics, query_lower, acc) ==
    IF topics = <<>> THEN acc
    ELSE IF topics[1].value.t # "dict" THEN Raised("AttributeError")
    ELSE scan_topics(Tail(topics), query_lower,
                     scan_items(topics[1].value.v, query_lower, acc))

\* search(query, topic) on a store kb; topic is None or PyStr(name), where name
\* is the topic's name as a whole ("crops"), never empty
search(kb, query, topic) ==
    LET query_lower == lower(query)
        start == [best |-> None, highest_score |-> 0]
    IN  IF topic # None /\ HasKey(kb, topic.v)
        THEN LET topic_data == GetItem(kb, topic.v)
             IN  IF topic_data.t # "dict" THEN Raised("AttributeError")
                 ELSE LET r == scan_items(topic_data.v, query_lower, start)
                      IN  IF r.highest_score > 0 THEN r.best ELSE None
        ELSE LET r == scan_topics(kb.v, query_lower, start)
             IN  IF r = Raised("AttributeError") THEN r
                 ELSE IF r.highest_score > 0 THEN r.best ELSE None

----------------------------------------------------------------------------
(* chatbot/response_generator.py: tables and pure helpers *)

greetings == <<
    <<"H","e","l","l","o","!"," ","I","'","m"," ","y","o","u","r"," ","A","g","r","i","c",
            "u","l","t","u","r","e"," ","A","s","s","i","s","t","a","n","t","."," ","H","o",
            "w"," ","c","a","n"," ","I"," ","h","e","l","p"," ","y","o","u"," ","w","i","t",
            "h"," ","f","a","r","m","i","n","g"," ","t","o","d","a","y","?">>,
    <<"H","i"," ","t","h","e","r","e","!"," ","I","'","m"," ","h","e","r","e"," ","t","o",
            " ","h","e","l","p"," ","w","i","t","h"," ","a","l","l"," ","y","o","u","r"," ",
            "a","g","r","i","c","u","l","t","u","r","e"," ","a","n","d"," ","f","a","r","m",
            "i","n","g"," ","q","u","e","s","t","i","o","n","s",".">>,
    <<"W","e","l","c","o","m","e","!"," ","A","s","k"," ","m","e"," ","a","n","y","t","h",
            "i","n","g"," ","a","b","o","u","t"," ","c","r","o","p","s",","," ","c","u","l",
            "t","i","v","a","t","i","o","n",","," ","p","e","s","t","s",","," ","o","r"," ",
            "f","a","r","m","i","n","g"," ","t","e","c","h","n","i","q","u","e","s",".">> >>

FarewellMessage == <<"T","h","a","n","k"," ","y","o","u"," ","f","o","r"," ","u","s","i",
        "n","g"," ","A","g","r","i","c","u","l","t","u","r","e"," ","A","s","s","i","s","t",
        "a","n","t","!"," ","H","a","p","p","y"," ","f","a","r","m","i","n","g","!"," ",
        "SEEDLING">>
WeatherApology ==
    <<"S","o","r","r","y",","," ","I"," ","c","o","u","l","d","n","'","t"," ","f","e","t",
            "c","h"," ","t","h","e"," ","l","i","v","e"," ","w","e","a","t","h","e","r"," ",
            "d","a","t","a"," ","f","r","o","m"," ","T","h","i","n","g","S","p","e","a","k",
            " ","r","i","g","h","t"," ","n","o","w","."," ","P","l","e","a","s","e"," ","t",
            "r","y"," ","a","g","a","i","n"," ","l","a","t","e","r",".">>
OfflineMessage ==
    <<"I","'","m"," ","s","o","r","r","y",","," ","m","y"," ","A","I"," ","c","a","p","a",
            "b","i","l","i","t","i","e","s"," ","a","r","e"," ","c","u","r","r","e","n","t",
            "l","y"," ","o","f","f","l","i","n","e","."," ","P","l","e","a","s","e"," ","t",
            "r","y"," ","a","g","a","i","n"," ","l","a","t","e","r",".">>
ConnectionApology ==
    <<"I","'","m"," ","s","o","r","r","y",","," ","I","'","m"," ","h","a","v","i","n","g",
            " ","t","r","o","u","b","l","e"," ","c","o","n","n","e","c","t","i","n","g"," ",
            "t","o"," ","m","y"," ","k","n","o","w","l","e","d","g","e"," ","s","o","u","r",
            "c","e"," ","r","i","g","h","t"," ","n","o","w","."," ","P","l","e","a","s","e",
            " ","t","r","y"," ","a","g","a","i","n"," ","l","a","t","e","r",".">>

\* self.topic_patterns, in insertion order
topic_patterns == <<
    [topic |-> "crops", keywords |-> <<<<"c","r","o","p">>, <<"c","r","o","p","s">>, <<"p",
            "l","a","n","t">>, <<"p","l","a","n","t","s">>,
        <<"g","r","o","w">>, <<"c","u","l","t","i","v","a","t","i","o","n">>, <<"f","a","r",
                "m","i","n","g">>>>],
    [topic |-> "pests", keywords |-> <<<<"p","e","s","t">>, <<"p","e","s","t","s">>, <<"i",
            "n","s","e","c","t">>, <<"i","n","s","e","c","t","s">>,
        <<"b","u","g">>, <<"b","u","g","s">>, <<"d","i","s","e","a","s","e">>, <<"d","i",
                "s","e","a","s","e","s">>>>],
    [topic |-> "soil", keywords |-> <<<<"s","o","i","l">>, <<"f","e","r","t","i","l","i",
            "z","e","r">>, <<"f","e","r","t","i","l","i","s","e","r">>,
        <<"n","u","t","r","i","e","n","t","s">>, <<"p","h">>, <<"c","o","m","p","o","s","t"
                >>>>],
    [topic |-> "weather", keywords |-> <<<<"w","e","a","t","h","e","r">>, <<"r","a","i","n"
            >>, <<"s","e","a","s","o","n">>,
        <<"c","l","i","m","a","t","e">>, <<"t","e","m","p","e","r","a","t","u","r","e">>, <<
                "h","u","m","i","d","i","t","y">>, <<"p","r","e","s","s","u","r","e">>, <<
                "f","o","r","e","c","a","s","t">>>>],
    [topic |-> "seeds", keywords |-> <<<<"s","e","e","d">>, <<"s","e","e","d","s">>, <<"p",
            "l","a","n","t","i","n","g">>, <<"s","o","w","i","n","g">>,
        <<"g","e","r","m","i","n","a","t","i","o","n">>>>],
    [topic |-> "harvest", keywords |-> <<<<"h","a","r","v","e","s","t">>, <<"h","a","r","v",
            "e","s","t","i","n","g">>, <<"y","i","e","l","d">>,
        <<"p","r","o","d","u","c","t","i","o","n">>, <<"s","t","o","r","a","g","e">>>>] >>

\* any(p in text for p in phrases)
any_in(phrases, text) == \E i \in 1..Len(phrases) : IsSubstring(phrases[i], text)

_is_greeting(text) ==
    any_in(<<<<"h","e","l","l","o">>, <<"h","i">>, <<"h","e","y">>, <<"g","o","o","d"," ",
            "m","o","r","n","i","n","g">>, <<"g","o","o","d"," ","a","f","t","e","r","n",
            "o","o","n">>,
             <<"g","o","o","d"," ","e","v","e","n","i","n","g">>>>, text)

_is_goodbye(text) ==
    any_in(<<<<"b","y","e">>, <<"g","o","o","d","b","y","e">>, <<"s","e","e"," ","y","o","u"
            >>, <<"t","h","a","n","k","s">>, <<"t","h","a","n","k"," ","y","o","u">>, <<"e",
            "x","i","t">>,
             <<"q","u","i","t">>>>, text)

\* any(word in user_input for word in self.topic_patterns['weather'])
is_weather_query(text) == any_in(topic_patterns[4].keywords, text)

\* sum(1 for keyword in keywords if keyword in text)
keyword_score(keywords, text) ==
    Cardinality({i \in 1..Len(keywords) : IsSubstring(keywords[i], text)})

\* a variant of py_max that keeps the last of the maximal items
RECURSIVE py_max_last_wins(_, _)
py_max_last_wins(items, best) ==
    IF items = <<>> THEN best
    ELSE py_max_last_wins(Tail(items),
                          IF items[1].score >= best.score THEN items[1] ELSE best)

\* max(items, key=lambda x: x[1]): the first of the maximal items
RECURSIVE py_max(_, _)
py_max(items, best) ==
    IF items = <<>> THEN best
    ELSE py_max(Tail(items), IF items[1].score > best.score THEN items[1] ELSE best)

_identify_topic(text) ==
    LET scored == [i \in 1..Len(topic_patterns) |->
                     [topic |-> topic_patterns[i].topic,
                      score |-> keyword_score(topic_patterns[i].keywords, text)]]
        topic_scores == SelectSeq(scored, LAMBDA x : x.score > 0)
    IN  IF topic_scores # <<>>
        THEN PyStr(py_max(Tail(topic_scores), topic_scores[1]).topic)
        ELSE None

FenceMarker == <<"BT","BT","BT","m","a","r","k","d","o","w","n">>
FenceOpen == <<"BT","BT","BT","m","a","r","k","d","o","w","n","NL">>
FenceClose == <<"NL","BT","BT","BT">>

\* the post-processing of response.text in _get_ai_response
strip_markdown_fence(text) ==
    IF startswith(text, FenceMarker)
    THEN replace_with_empty(replace_with_empty(text, FenceOpen), FenceClose)
    ELSE text

----------------------------------------------------------------------------
(* chatbot/response_generator.py: AgricultureBot *)

\* bool(x) of a Python value
Truthy(x) ==
    CASE x.t = "none" -> FALSE
      [] x.t = "num" -> x.v # 0
      [] x.t \in {"str", "list", "dict"} -> x.v # <<>>
      [] OTHER -> TRUE

\* d.get(key, default)
py_get(d, k, default) == IF HasKey(d, k) THEN GetItem(d, k) ELSE default

\* What requests.get(url) and response.json() produce: requests.get raises,
\* json() raises on a body that is not JSON, or json() returns a value.
FeedError == [kind |-> "error"]
FeedNotJson == [kind |-> "notjson"]
FeedJson(content) == [kind |-> "json", content |-> content]

\* the try block of get_weather, given what the feed produced
weather_from(resp) ==
    IF resp.kind # "json" THEN None
    ELSE LET data == resp.content
         IN  IF data.t # "dict" THEN None              \* data.get raises
             ELSE LET feeds == py_get(data, "feeds", None)
                  IN  IF ~Truthy(feeds) THEN None
                      ELSE IF feeds.t # "list" THEN None   \* len() or feeds[0] raises,
                                                           \* or latest.get raises
                      ELSE LET latest == feeds.v[1]
                           IN  IF latest.t # "dict" THEN None   \* latest.get raises
                               ELSE [t |-> "reading",
                                     temperature |-> py_get(latest, "field1", None),
                                     humidity |-> py_get(latest, "field2", None),
                                     pressure |-> py_get(latest, "field3", PyStr(<<"N","/",
                                             "A">>))]

\* the seed turns of start_chat(history=[...])
SeedHistory ==
    << [role |-> "user", parts |-> [t |-> "seed", v |-> "instruction"]],
       [role |-> "model", parts |-> [t |-> "seed", v |-> "acknowledgement"]] >>

Session(history) == [t |-> "session", history |-> history]

\* the request a worker thread is serving: the locals of get_response and of
\* the functions it calls, where it stands (pc), and what it has done so far
Idle ==
    [pc |-> "idle", user_input |-> <<>>, branch |-> "none", topic |-> None,
     context |-> None, weather_info |-> None, feed |-> None, ai_called |-> FALSE,
     prompt |-> None, sends |-> 0, fetches |-> 0, failed |-> "none",
     response |-> None]

\* a variant of route that tests the weather keywords first
route_weather_first(user_input) ==
    IF is_weather_query(user_input) THEN "weather"
    ELSE IF _is_greeting(user_input) THEN "greeting"
    ELSE IF _is_goodbye(user_input) THEN "farewell"
    ELSE "general"

\* the if/elif chain of get_response on the normalized input
route(user_input) ==
    IF _is_greeting(user_input) THEN "greeting"
    ELSE IF _is_goodbye(user_input) THEN "farewell"
    ELSE IF is_weather_query(user_input) THEN "weather"
    ELSE "general"

\* "return <string>" from get_response
finish(r, text) == [r EXCEPT !.pc = "done", !.response = PyStr(text)]

\* a variant of ai_request without the "if not self.chat" check
ai_request_unchecked(r, session, user_input, context) ==
    [r EXCEPT !.ai_called = TRUE,
              !.pc = "sending",
              !.sends = @ + 1,
              !.prompt = [t |-> "prompt", user_input |-> user_input,
                          context |-> IF Truthy(context) THEN context ELSE None]]

\* _get_ai_response(user_input, context) up to the call of send_message:
\* without a session it returns the offline message; otherwise it builds the
\* prompt and sends it
ai_request(r, session, user_input, context) ==
    IF ~Truthy(session)
    THEN finish([r EXCEPT !.ai_called = TRUE], OfflineMessage)
    ELSE [r EXCEPT !.ai_called = TRUE,
                   !.pc = "sending",
                   !.sends = @ + 1,
                   !.prompt = [t |-> "prompt", user_input |-> user_input,
                               context |-> IF Truthy(context) THEN context ELSE None]]

\* a variant of after_backend_failure that sends the prompt again
after_backend_failure_retry(r) ==
    [r EXCEPT !.failed = "backend", !.pc = "sending", !.sends = @ + 1]

\* the except branch of _get_ai_response
after_backend_failure(r) ==
    finish([r EXCEPT !.failed = "backend"], ConnectionApology)

\* the try branch of _get_ai_response, given response.text
after_backend_reply(r, text) == finish(r, strip_markdown_fence(text))

\* the prompt of the weather branch: the readings set into a fixed sentence
weather_prompt(weather_info) ==
    [t |-> "weather_prompt",
     temperature |-> IF weather_info = None THEN None ELSE weather_info.temperature,
     humidity |-> IF weather_info = None THEN None ELSE weather_info.humidity,
     pressure |-> IF weather_info = None THEN None ELSE weather_info.pressure]

\* a variant of after_weather that asks the backend whatever get_weather returned
after_weather_always_asks(r, session, weather_info) ==
    ai_request([r EXCEPT !.weather_info = weather_info], session,
               weather_prompt(weather_info), None)

\* get_response after get_weather returned weather_info
after_weather(r, session, weather_info) ==
    LET r1 == [r EXCEPT !.weather_info = weather_info]
    IN  IF Truthy(weather_info)
        THEN ai_request(r1, session, weather_prompt(weather_info), None)
        ELSE finish([r1 EXCEPT !.failed = "weather"], WeatherApology)

\* _process_agriculture_query(user_input)
_process_agriculture_query(r, session, kb, user_input) ==
    LET topic == _identify_topic(user_input)
        context_info == IF topic # None THEN search(kb, user_input, topic) ELSE None
        r1 == [r EXCEPT !.topic = topic]
    IN  IF context_info.t = "raise"
        THEN [r1 EXCEPT !.pc = "raised", !.failed = "search"]
        ELSE ai_request([r1 EXCEPT !.context = context_info], session,
                        PyStr(user_input), context_info)

\* a variant of send_turn that starts a new session for the request
send_turn_fresh_session(session, r) ==
    IF r.pc = "sending" /\ session # None
    THEN Session(Append(SeedHistory, [role |-> "user", parts |-> r.prompt]))
    ELSE session

\* chat.send_message(prompt) puts the prompt on the session's history
send_turn(session, r) ==
    IF r.pc = "sending" /\ session # None
    THEN Session(Append(session.history, [role |-> "user", parts |-> r.prompt]))
    ELSE session

MaxRequests == 2
Threads == {1, 2}

\* messages as the transport hands them over (stripped, not empty)
Messages ==
    { <<"h","i",","," ","t","h","a","n","k","s"," ","-"," ","h","o","w"," ","d","o"," ","I",
            " ","g","r","o","w"," ","r","i","c","e"," ","i","n"," ","t","h","e"," ","r","a",
            "i","n">>,
      <<"T","h","a","n","k","s"," ","f","o","r"," ","t","h","e"," ","r","a","i","n"," ","f",
              "o","r","e","c","a","s","t",","," ","c","r","o","p","s"," ","g","r","o","w">>,
      <<"W","i","l","l"," ","i","t"," "," ","R","A","I","N","TAB","t","o","d","a","y">>,
      <<"h","o","w"," ","t","o"," ","g","r","o","w"," ","r","i","c","e">>,
      <<"s","o","w","i","n","g"," ","r","i","c","e"," ","s","e","e","d","s">>,
      <<"t","e","l","l"," ","m","e"," ","a","b","o","u","t"," ","t","r","a","c","t","o","r",
              "s">> }

Reading(f1, f2) ==
    PyDict(<<KV("field1", PyStr(f1)), KV("field2", PyStr(f2))>>)

FeedResponses ==
    { FeedError,
      FeedNotJson,
      FeedJson(PyList(<<>>)),
      FeedJson(PyDict(<<KV("channel", PyDict(<<>>))>>)),
      FeedJson(PyDict(<<KV("feeds", PyList(<<>>))>>)),
      FeedJson(PyDict(<<KV("feeds", PyList(<<PyStr(<<"x">>)>>))>>)),
      FeedJson(PyDict(<<KV("feeds", PyList(<<Reading(<<"2","4",".","5">>, <<"6","0">>)>>))>>)) }

ReplyTexts ==
    { <<"R","i","c","e"," ","n","e","e","d","s"," ","w","a","t","e","r",".">>,
      <<"BT","BT","BT","m","a","r","k","d","o","w","n","NL","*","*","R","i","c","e","*","*",
              " ","g","r","o","w","s","NL","BT","BT","BT">> }

\* AgricultureBot.__init__: the session exists iff the credential is set
Init ==
    /\ crops_file \in CropsFiles
    /\ knowledge = _load_knowledge(crops_file)
    /\ environ \in [GOOGLE_API_KEY : BOOLEAN, THINGSPEAK_WEATHER_CHANNEL : BOOLEAN]
    /\ chat = IF environ.GOOGLE_API_KEY THEN Session(SeedHistory) ELSE None
    /\ req = [t \in Threads |-> Idle]
    /\ served = 0
    /\ fn_call = None
    /\ fn_ret = None

\* get_response(msg) from its entry to its return or to its first external call
Receive(t, msg) ==
    /\ req[t].pc = "idle"
    /\ served < MaxRequests
    /\ served' = served + 1
    /\ LET user_input == clean_text(lower(msg))
           branch == route(user_input)
           r == [Idle EXCEPT !.user_input = user_input, !.branch = branch]
       IN  \E next \in
               CASE branch = "greeting" ->
                      {finish(r, greetings[i]) : i \in 1..Len(greetings)}
                 [] branch = "farewell" -> {finish(r, FarewellMessage)}
                 [] branch = "weather" ->
                      IF ~environ.THINGSPEAK_WEATHER_CHANNEL
                      THEN {after_weather(r, chat, None)}
                      ELSE {[r EXCEPT !.pc = "fetching", !.fetches = @ + 1]}
                 [] OTHER -> {_process_agriculture_query(r, chat, knowledge, user_input)} :
             /\ req' = [req EXCEPT ![t] = next]
             /\ chat' = send_turn(chat, next)
    /\ UNCHANGED <<crops_file, knowledge, environ, fn_call, fn_ret>>

\* requests.get(url) comes back (or raises); get_weather and the weather
\* branch of get_response run on
FeedResponds(t, resp) ==
    /\ req[t].pc = "fetching"
    /\ LET next == after_weather([req[t] EXCEPT !.feed = resp], chat, weather_from(resp))
       IN  /\ req' = [req EXCEPT ![t] = next]
           /\ chat' = send_turn(chat, next)
    /\ UNCHANGED <<crops_file, knowledge, environ, served, fn_call, fn_ret>>

\* send_message returns a response whose text is text
BackendReplies(t, text) ==
    /\ req[t].pc = "sending"
    /\ req' = [req EXCEPT ![t] = after_backend_reply(req[t], text)]
    /\ chat' = Session(Append(chat.history,
                              [role |-> "model", parts |-> [t |-> "reply", v |-> text]]))
    /\ UNCHANGED <<crops_file, knowledge, environ, served, fn_call, fn_ret>>

\* send_message (or response.text) raises
BackendFails(t) ==
    /\ req[t].pc = "sending"
    /\ LET next == after_backend_failure(req[t])
       IN  /\ req' = [req EXCEPT ![t] = next]
           /\ chat' = send_turn(chat, next)
    /\ UNCHANGED <<crops_file, knowledge, environ, served, fn_call, fn_ret>>

\* the route handler takes the returned string (or the exception) and the
\* thread is free for the next request
Return(t) ==
    /\ req[t].pc \in {"done", "raised"}
    /\ req' = [req EXCEPT ![t] = Idle]
    /\ UNCHANGED <<crops_file, knowledge, chat, environ, served, fn_call, fn_ret>>

Next ==
    \E t \in Threads :
        \/ \E msg \in Messages : Receive(t, msg)
        \/ \E resp \in FeedResponses : FeedResponds(t, resp)
        \/ \E text \in ReplyTexts : BackendReplies(t, text)
        \/ BackendFails(t)
        \/ Return(t)

Spec == Init /\ [][Next]_vars

----------------------------------------------------------------------------
(* Properties of get_response *)

GreetingPhrases == {<<"h","e","l","l","o">>, <<"h","i">>, <<"h","e","y">>, <<"g","o","o",
        "d"," ","m","o","r","n","i","n","g">>, <<"g","o","o","d"," ","a","f","t","e","r",
        "n","o","o","n">>,
    <<"g","o","o","d"," ","e","v","e","n","i","n","g">>}
FarewellPhrases == {<<"b","y","e">>, <<"g","o","o","d","b","y","e">>, <<"s","e","e"," ","y",
        "o","u">>, <<"t","h","a","n","k","s">>, <<"t","h","a","n","k"," ","y","o","u">>,
    <<"e","x","i","t">>, <<"q","u","i","t">>}
WeatherKeywords == {<<"w","e","a","t","h","e","r">>, <<"r","a","i","n">>, <<"s","e","a","s",
        "o","n">>, <<"c","l","i","m","a","t","e">>, <<"t","e","m","p","e","r","a","t","u",
        "r","e">>,
    <<"h","u","m","i","d","i","t","y">>, <<"p","r","e","s","s","u","r","e">>, <<"f","o","r",
            "e","c","a","s","t">>}
HasAny(phrases, text) == \E p \in phrases : IsSubstring(p, text)

\* the requests being served
Active == {t \in Threads : req[t].pc # "idle"}

\* C1: get_response dispatches by first match on the normalized input:
\* greeting, else farewell, else weather, else general query; a greeting or
\* farewell match wins over co-occurring weather and topic keywords, and only
\* the branch taken acts (no fetch, no classification, no backend call outside
\* their branches).
DispatchByPriority ==
    \A t \in Active :
        LET r == req[t]
            g == HasAny(GreetingPhrases, r.user_input)
            f == HasAny(FarewellPhrases, r.user_input)
            w == HasAny(WeatherKeywords, r.user_input)
        IN  /\ r.branch = (IF g THEN "greeting" ELSE IF f THEN "farewell"
                           ELSE IF w THEN "weather" ELSE "general")
            /\ r.branch = "greeting" =>
                  /\ r.pc = "done"
                  /\ \E i \in 1..3 : r.response = PyStr(greetings[i])
            /\ r.branch = "farewell" =>
                  r.pc = "done" /\ r.response = PyStr(FarewellMessage)
            /\ r.branch \in {"greeting", "farewell"} =>
                  r.fetches = 0 /\ r.sends = 0 /\ ~r.ai_called /\ r.topic = None
            /\ r.branch = "weather" => r.topic = None /\ r.context = None
            /\ r.branch = "general" =>
                  r.fetches = 0 /\ r.weather_info = None /\ r.feed = None

\* a greeting that also holds a farewell phrase, a weather keyword and a crop
\* keyword was answered with a greeting
GreetingWinsWitness ==
    \E t \in Active :
        /\ req[t].pc = "done"
        /\ req[t].branch = "greeting"
        /\ HasAny(FarewellPhrases, req[t].user_input)
        /\ HasAny(WeatherKeywords, req[t].user_input)
        /\ _identify_topic(req[t].user_input) = PyStr("crops")

\* the fetch of request t can have produced no reading: no channel id, the
\* call failed, the body was malformed, or the feeds array is missing or empty
NoReadingCause(t) ==
    \/ ~environ.THINGSPEAK_WEATHER_CHANNEL
    \/ /\ req[t].feed # None
       /\ \/ req[t].feed.kind \in {"error", "notjson"}
          \/ /\ req[t].feed.kind = "json"
             /\ \/ req[t].feed.content.t # "dict"
                \/ ~HasKey(req[t].feed.content, "feeds")
                \/ GetItem(req[t].feed.content, "feeds") = PyList(<<>>)

\* C2: in the weather branch, whenever the fetch yields no reading (channel
\* id unconfigured, network call fails, response malformed, feeds missing or
\* empty), get_response returns the weather apology and the generation
\* backend is never called during that request.
WeatherFailureApologizes ==
    \A t \in Active :
        (/\ req[t].branch = "weather"
         /\ req[t].pc # "fetching"
         /\ (req[t].weather_info = None \/ NoReadingCause(t)))
        => /\ req[t].pc = "done"
           /\ req[t].response = PyStr(WeatherApology)
           /\ req[t].weather_info = None
           /\ req[t].sends = 0
           /\ ~req[t].ai_called

\* with a live session, a weather request whose feed answered with an empty
\* feeds array ended with the apology
WeatherFailureWitness ==
    \E t \in Active :
        /\ chat # None
        /\ req[t].branch = "weather"
        /\ req[t].pc = "done"
        /\ req[t].feed = FeedJson(PyDict(<<KV("feeds", PyList(<<>>))>>))
        /\ req[t].response = PyStr(WeatherApology)

\* C3: when the backend failed to initialize at construction (no credential,
\* so no session), then in every later state there is still no session, and
\* every call of _get_ai_response has returned the offline message and sent
\* nothing.
OfflineShortCircuits ==
    ~environ.GOOGLE_API_KEY =>
        /\ chat = None
        /\ \A t \in Threads :
              /\ req[t].sends = 0
              /\ req[t].pc # "sending"
              /\ req[t].ai_called =>
                    req[t].pc = "done" /\ req[t].response = PyStr(OfflineMessage)

\* offline, after an earlier request, both a general query and a weather
\* query with a reading have been answered with the offline message
OfflineWitness ==
    /\ chat = None
    /\ served = MaxRequests
    /\ \E t, u \in Active :
          /\ req[t].branch = "general" /\ req[t].ai_called
          /\ req[t].response = PyStr(OfflineMessage)
          /\ req[u].branch = "weather" /\ req[u].ai_called
          /\ req[u].weather_info # None
          /\ req[u].response = PyStr(OfflineMessage)

\* C4: for every message and every outcome of its collaborators (the loaded
\* knowledge data, the weather feed, the backend) get_response returns a
\* string and never raises past its boundary.
NeverRaises ==
    \A t \in Threads :
        /\ req[t].pc # "raised"
        /\ req[t].pc = "done" => req[t].response.t = "str"

TopicKeys == {knowledge.v[i].key : i \in 1..Len(knowledge.v)}

\* C5: when the crops data file is absent, and likewise when reading it
\* fails, the store holds the built-in default dataset (five crops, two pests,
\* two soil topics, one weather topic, one general topic); in every outcome
\* all five topic keys are present.
LoadFallsBackToDefaults ==
    /\ crops_file.kind \in {"absent", "unreadable"} =>
          /\ knowledge = _get_default_knowledge
          /\ Len(GetItem(knowledge, "crops").v) = 5
          /\ Len(GetItem(knowledge, "pests").v) = 2
          /\ Len(GetItem(knowledge, "soil").v) = 2
          /\ Len(GetItem(knowledge, "weather").v) = 1
          /\ Len(GetItem(knowledge, "general").v) = 1
    /\ TopicKeys = {"crops", "pests", "soil", "weather", "general"}

\* C10: during one get_response call the backend is sent at most one message
\* and the feed is fetched at most once; a request whose call failed ends with
\* the fixed fallback string without a further attempt; greeting and farewell
\* requests make no external call.
NoRetry ==
    \A t \in Threads :
        /\ req[t].sends <= 1
        /\ req[t].fetches <= 1
        /\ req[t].failed = "backend" =>
              /\ req[t].pc = "done"
              /\ req[t].sends = 1
              /\ req[t].response = PyStr(ConnectionApology)
        /\ req[t].failed = "weather" =>
              /\ req[t].pc = "done"
              /\ req[t].sends = 0
              /\ req[t].response = PyStr(WeatherApology)
        /\ req[t].branch \in {"greeting", "farewell"} =>
              req[t].sends = 0 /\ req[t].fetches = 0

\* a weather request fetched a reading once, sent one prompt, the backend
\* failed, and the request ended with the fallback string
NoRetryWitness ==
    \E t \in Active :
        /\ req[t].pc = "done"
        /\ req[t].failed = "backend"
        /\ req[t].fetches = 1
        /\ req[t].sends = 1
        /\ req[t].response = PyStr(ConnectionApology)

\* a is a prefix of b
IsPrefix(a, b) == Len(a) <= Len(b) /\ SubSeq(b, 1, Len(a)) = a

\* C11: there is one conversation session per process and its history is
\* append-only: under any interleaving of get_response calls the history
\* begins with the two seed turns, every later history extends every earlier
\* one, and the prompt of every request that sent one is a turn of that same
\* history.
SharedAppendOnlyHistory ==
    /\ [](chat # None =>
            /\ IsPrefix(SeedHistory, chat.history)
            /\ \A t \in Threads :
                  req[t].sends > 0 =>
                     \E i \in 3..Len(chat.history) :
                        /\ chat.history[i].role = "user"
                        /\ chat.history[i].parts = req[t].prompt)
    /\ [][chat # None => chat' # None /\ IsPrefix(chat.history, chat'.history)]_vars

\* the prompts of two requests in flight stand next to each other in the
\* history, before either reply: the turns of the two requests interleave
InterleavedTurnsWitness ==
    /\ chat # None
    /\ req[1].pc = "sending"
    /\ req[2].pc = "done"
    /\ req[1].prompt # req[2].prompt
    /\ \E i \in 3..(Len(chat.history) - 2) :
          /\ chat.history[i] = [role |-> "user", parts |-> req[2].prompt]
          /\ chat.history[i + 1] = [role |-> "user", parts |-> req[1].prompt]
          /\ chat.history[i + 2].role = "model"

\* the entries of every topic of the store that holds a mapping, in
\* iteration order
RECURSIVE AllItems(_)
AllItems(topics) ==
    IF topics = <<>> THEN <<>>
    ELSE (IF topics[1].value.t = "dict" THEN topics[1].value.v ELSE <<>>)
         \o AllItems(Tail(topics))

\* the first of the best-scoring entries over every topic, None when every
\* entry scores zero
CrossTopicBest(query) ==
    LET items == AllItems(knowledge.v)
        scores == [i \in 1..Len(items) |->
                     _calculate_relevance(lower(query), items[i].key, items[i].value)]
    IN  IF \A i \in 1..Len(items) : scores[i] = 0 THEN None
        ELSE items[CHOOSE i \in 1..Len(items) :
                     /\ scores[i] > 0
                     /\ \A j \in 1..Len(items) : scores[j] <= scores[i]
                     /\ \A j \in 1..(i - 1) : scores[j] < scores[i]].value

\* the general-branch requests whose classified topic is no key of the store
OffStoreTopic(t) ==
    /\ req[t].branch = "general"
    /\ _identify_topic(req[t].user_input) # None
    /\ ~HasKey(knowledge, _identify_topic(req[t].user_input).v)

\* C12: in the general branch, when the classifier returns a topic that is no
\* key of the store (seeds, harvest), search falls through to the cross-topic
\* scan and returns the best-scoring entry over every topic; when the
\* classifier returns None the store is not searched and the generation
\* client is called with no context.
FallThroughSearch ==
    \A t \in Active :
        /\ OffStoreTopic(t) =>
              /\ req[t].pc # "raised"
              /\ req[t].ai_called
              /\ req[t].context = CrossTopicBest(req[t].user_input)
        /\ (req[t].branch = "general" /\ _identify_topic(req[t].user_input) = None) =>
              /\ req[t].pc # "raised"
              /\ req[t].topic = None
              /\ req[t].context = None
              /\ req[t].ai_called
              /\ req[t].prompt # None => req[t].prompt.context = None

\* FallThroughSearch for the stores whose crops data is a mapping
FallThroughSearchOnMappings ==
    GetItem(knowledge, "crops").t = "dict" => FallThroughSearch

\* a seeds query answered from the crops topic by the cross-topic scan
FallThroughFound ==
    \E t \in Active :
        /\ OffStoreTopic(t)
        /\ req[t].context # None
        /\ \E i \in 1..Len(AllItems(knowledge.v)) :
              req[t].context = AllItems(knowledge.v)[i].value
        /\ req[t].prompt # None
        /\ req[t].prompt.context = req[t].context

----------------------------------------------------------------------------
(* Inputs *)

\* " ".join(words)
RECURSIVE join(_)
join(words) ==
    IF words = <<>> THEN <<>>
    ELSE IF Len(words) = 1 THEN words[1]
    ELSE words[1] \o <<" ">> \o join(Tail(words))

\* concatenation of the parts
RECURSIVE concat(_)
concat(parts) == IF parts = <<>> THEN <<>> ELSE parts[1] \o concat(Tail(parts))

\* every sequence of at most n elements of the sequence vocab
Phrases(vocab, n) ==
    UNION {{[i \in 1..k |-> vocab[f[i]]] : f \in [1..k -> 1..Len(vocab)]} : k \in 0..n}

MaxQueryWords == 2
QueryVocabulary == <<<<"r","i","c","e">>, <<"S","e","a","s","o","n">>, <<"w","i","n","t",
        "e","r">>, <<"p","h">>, <<"c","o","r","n">>, <<"z","z","z">>>>
Queries == {join(p) : p \in Phrases(QueryVocabulary, MaxQueryWords)}

TopicArgs == {None, PyStr("crops"), PyStr("pests"), PyStr("soil"), PyStr("seeds")}

\* every (key, entry) of every topic of a store that holds entries
EntriesOf(kb) ==
    UNION {IF kb.v[i].value.t = "dict"
           THEN {kb.v[i].value.v[j] : j \in 1..Len(kb.v[i].value.v)}
           ELSE {} : i \in 1..Len(kb.v)}

Pending == [t |-> "pending"]
Returned(x) == [t |-> "returned", value |-> x]


----------------------------------------------------------------------------
(* Direct calls of the knowledge store: search and _calculate_relevance *)

InitSearch ==
    /\ crops_file \in CropsFiles
    /\ knowledge = _load_knowledge(crops_file)
    /\ chat = None
    /\ environ = [GOOGLE_API_KEY |-> FALSE, THINGSPEAK_WEATHER_CHANNEL |-> FALSE]
    /\ req = [t \in Threads |-> Idle]
    /\ served = 0
    /\ fn_call \in
         {[fn |-> "search", query |-> q, topic |-> tp] : q \in Queries, tp \in TopicArgs}
         \cup {[fn |-> "_calculate_relevance", query |-> q, key |-> e.key, data |-> e.value] :
                 q \in Queries, e \in EntriesOf(knowledge)}
    /\ fn_ret = Pending

CallSearch ==
    /\ fn_call.fn = "search"
    /\ fn_ret = Pending
    /\ fn_ret' = Returned(search(knowledge, fn_call.query, fn_call.topic))
    /\ UNCHANGED <<crops_file, knowledge, chat, environ, req, served, fn_call>>

CallRelevance ==
    /\ fn_call.fn = "_calculate_relevance"
    /\ fn_ret = Pending
    /\ fn_ret' = Returned(_calculate_relevance(fn_call.query, fn_call.key, fn_call.data))
    /\ UNCHANGED <<crops_file, knowledge, chat, environ, req, served, fn_call>>

NextSearch == CallSearch \/ CallRelevance

SpecSearch == InitSearch /\ [][NextSearch]_vars

\* The search calls that name a topic of the store holding a mapping of entries
SearchedTopic ==
    /\ fn_call.fn = "search"
    /\ fn_ret # Pending
    /\ fn_call.topic # None
    /\ HasKey(knowledge, fn_call.topic.v)
    /\ GetItem(knowledge, fn_call.topic.v).t = "dict"

\* scores of the entries of the searched topic, in iteration order
TopicScores ==
    LET items == GetItem(knowledge, fn_call.topic.v).v
    IN  [i \in 1..Len(items) |->
           _calculate_relevance(lower(fn_call.query), items[i].key, items[i].value)]

CallWords == {split(fn_call.query)[i] : i \in 1..Len(split(fn_call.query))}
WordIn(s) == \E w \in CallWords : IsSubstring(w, lower(s))

\* C7: the relevance score is 2 if any whitespace-delimited query word is a
\* substring of the lowercased key, plus 1 for each string-valued field of a
\* mapping entry whose lowercased value holds any query word (once per field;
\* list-valued fields add nothing), plus 1 if the entry is a bare string holding
\* any query word; a mapping entry scores between 0 and 2 + its string fields.
RelevanceScoreFormula ==
    (fn_call.fn = "_calculate_relevance" /\ fn_ret # Pending) =>
        LET data == fn_call.data
            strfields == IF data.t = "dict"
                         THEN {i \in 1..Len(data.v) : data.v[i].value.t = "str"}
                         ELSE {}
            keypart == IF WordIn(fn_call.key) THEN 2 ELSE 0
            fieldpart == Cardinality({i \in strfields : WordIn(data.v[i].value.v)})
            barepart == IF data.t = "str" /\ WordIn(data.v) THEN 1 ELSE 0
        IN  /\ fn_ret.value = keypart + fieldpart + barepart
            /\ data.t = "dict" =>
                  (0 <= fn_ret.value /\ fn_ret.value <= 2 + Cardinality(strfields))

\* a scored mapping entry with a list field holding a query word and a string
\* field that two words of the query both match
RelevanceWitness ==
    /\ fn_call.fn = "_calculate_relevance"
    /\ fn_ret # Pending
    /\ fn_call.data.t = "dict"
    /\ fn_ret.value > 2
    /\ \E i \in 1..Len(fn_call.data.v) :
          /\ fn_call.data.v[i].value.t = "list"
          /\ \E k \in 1..Len(fn_call.data.v[i].value.v) :
                WordIn(fn_call.data.v[i].value.v[k].v)
    /\ \E i \in 1..Len(fn_call.data.v) :
          /\ fn_call.data.v[i].value.t = "str"
          /\ \E a, b \in 1..Len(split(fn_call.query)) :
                /\ a # b
                /\ IsSubstring(split(fn_call.query)[a], lower(fn_call.data.v[i].value.v))
                /\ IsSubstring(split(fn_call.query)[b], lower(fn_call.data.v[i].value.v))

----------------------------------------------------------------------------
(* Direct calls of the topic classifier *)

MaxTextWords == 3
TopicVocabulary == <<<<"c","r","o","p","s">>, <<"g","r","o","w">>, <<"p","e","s","t","s"
        >>, <<"b","u","g">>, <<"s","o","i","l">>, <<"p","l","a","n","t","i","n","g">>,
    <<"h","a","r","v","e","s","t">>, <<"z","z","z">>>>
Texts == {join(p) : p \in Phrases(TopicVocabulary, MaxTextWords)}

InitTopic ==
    /\ crops_file = FileAbsent
    /\ knowledge = _load_knowledge(crops_file)
    /\ chat = None
    /\ environ = [GOOGLE_API_KEY |-> FALSE, THINGSPEAK_WEATHER_CHANNEL |-> FALSE]
    /\ req = [t \in Threads |-> Idle]
    /\ served = 0
    /\ fn_call \in {[fn |-> "_identify_topic", text |-> x] : x \in Texts}
    /\ fn_ret = Pending

CallIdentifyTopic ==
    /\ fn_call.fn = "_identify_topic"
    /\ fn_ret = Pending
    /\ fn_ret' = Returned(_identify_topic(fn_call.text))
    /\ UNCHANGED <<crops_file, knowledge, chat, environ, req, served, fn_call>>

NextTopic == CallIdentifyTopic

SpecTopic == InitTopic /\ [][NextTopic]_vars

\* per topic of the pattern table, in table order: how many of its keywords
\* occur in the classified text
TopicCounts ==
    [i \in 1..Len(topic_patterns) |->
       Cardinality({kw \in {topic_patterns[i].keywords[k] :
                              k \in 1..Len(topic_patterns[i].keywords)} :
                      IsSubstring(kw, fn_call.text)})]

\* C8: _identify_topic returns the topic with the maximum non-zero count of
\* keywords occurring in the text, the earliest in the pattern table when
\* several topics share the maximum, and None exactly when every count is 0.
TopicIsFirstMaximum ==
    (fn_call.fn = "_identify_topic" /\ fn_ret # Pending) =>
        /\ (fn_ret.value = None) <=> (\A i \in 1..Len(topic_patterns) : TopicCounts[i] = 0)
        /\ (fn_ret.value # None) =>
              \E i \in 1..Len(topic_patterns) :
                 /\ fn_ret.value = PyStr(topic_patterns[i].topic)
                 /\ TopicCounts[i] > 0
                 /\ \A j \in 1..Len(topic_patterns) : TopicCounts[j] <= TopicCounts[i]
                 /\ \A j \in 1..(i - 1) : TopicCounts[j] < TopicCounts[i]

\* a classification in which two topics tie for the maximum and the one
\* defined earlier in the table is returned
TopicTieWitness ==
    /\ fn_call.fn = "_identify_topic"
    /\ fn_ret # Pending
    /\ \E i, j \in 1..Len(topic_patterns) :
          /\ i < j
          /\ TopicCounts[i] > 0
          /\ TopicCounts[j] = TopicCounts[i]
          /\ \A k \in 1..Len(topic_patterns) : TopicCounts[k] <= TopicCounts[i]
          /\ fn_ret.value = PyStr(topic_patterns[i].topic)

----------------------------------------------------------------------------
(* Direct calls of the reply post-processing *)

MaxReplyParts == 5
ReplyParts == <<FenceOpen, FenceMarker, FenceClose, <<"*","*","R","i","c","e","*","*"," ",
        "g","r","o","w","s">>, <<"NL">>>>
Replies == {concat(p) : p \in Phrases(ReplyParts, MaxReplyParts)}

InitReply ==
    /\ crops_file = FileAbsent
    /\ knowledge = _load_knowledge(crops_file)
    /\ chat = None
    /\ environ = [GOOGLE_API_KEY |-> FALSE, THINGSPEAK_WEATHER_CHANNEL |-> FALSE]
    /\ req = [t \in Threads |-> Idle]
    /\ served = 0
    /\ fn_call \in {[fn |-> "strip_markdown_fence", text |-> x] : x \in Replies}
    /\ fn_ret = Pending

CallStripFence ==
    /\ fn_call.fn = "strip_markdown_fence"
    /\ fn_ret = Pending
    /\ fn_ret' = Returned(strip_markdown_fence(fn_call.text))
    /\ UNCHANGED <<crops_file, knowledge, chat, environ, req, served, fn_call>>

NextReply == CallStripFence

SpecReply == InitReply /\ [][NextReply]_vars

\* s.endswith(p)
endswith(s, p) ==
    Len(p) <= Len(s) /\ \A j \in 1..Len(p) : s[Len(s) - Len(p) + j] = p[j]

\* C9: a reply that begins with the markdown-tagged fence marker comes back
\* without its opening fence and its trailing closing fence, holding no fence
\* marker and with the inner text exactly preserved; any other reply comes
\* back verbatim.
FenceUnwrapExact ==
    (fn_call.fn = "strip_markdown_fence" /\ fn_ret # Pending) =>
        LET text == fn_call.text
        IN  IF startswith(text, FenceMarker)
            THEN /\ ~IsSubstring(<<"BT","BT","BT">>, fn_ret.value)
                 /\ (/\ startswith(text, FenceOpen)
                      /\ endswith(text, FenceClose)
                      /\ Len(text) >= Len(FenceOpen) + Len(FenceClose))
                     => fn_ret.value
                          = SubSeq(text, Len(FenceOpen) + 1, Len(text) - Len(FenceClose))
            ELSE fn_ret.value = text
====
